---- MODULE Spec2Model ----
(***************************************************************************)
(* Model of the bitsy "save" hack (src/src/narrat jump.js, lines 35-240):  *)
(* save(), load(), clear(), the saveHack dialog progress store, the        *)
(* autosave/autoload/clear hooks and the (save)/(load)/(clear) dialog tags.*)
(* The host engine (bitsy) and the browser (localStorage, interval timers) *)
(* are modelled only as far as the hack reads or writes them.              *)
(***************************************************************************)
EXTENDS Integers, Sequences, FiniteSets, TLC

VARIABLES
    hackOptions,       \* the exported hackOptions object
    curGameData,       \* the game the engine was started with
    bitsy,             \* the engine fields the hack reads and writes
    localStorage,      \* browser storage: key -> JSON document
    timers,            \* ids of the active interval timers of the page
    autosaveInterval,  \* the module-level timer handle (line 198)
    lastOp             \* the handler that ran last

vars == <<hackOptions, curGameData, bitsy, localStorage, timers, autosaveInterval, lastOp>>

----------------------------------------------------------------------------
(* Bounds of the model *)

\* largest player coordinate inside a room
MaxCoord == 1
\* largest sequence index a dialog node reports
MaxIndex == 1

----------------------------------------------------------------------------
(* JavaScript values *)

\* result of reading a missing property / a timer handle never assigned
undefined == <<>>
Some(v) == <<v>>

EmptyObject == [k \in {} |-> 0]
Put(obj, k, v) == [p \in (DOMAIN obj) \cup {k} |-> IF p = k THEN v ELSE obj[p]]
Has(obj, k) == k \in DOMAIN obj

\* `autosaveInterval: Infinity`: larger than every interval an author sets
Infinity == 1000000000
\* the finite intervals (milliseconds) an author may set instead
FiniteIntervals == {1000}

Merge(a, b) == [p \in (DOMAIN a) \cup (DOMAIN b) |-> IF p \in DOMAIN b THEN b[p] ELSE a[p]]

RECURSIVE SeqWithout(_, _)
SeqWithout(s, e) ==
    IF s = <<>> THEN <<>>
    ELSE IF Head(s) = e THEN Tail(s)
    ELSE <<Head(s)>> \o SeqWithout(Tail(s), e)

Range(s) == {s[i] : i \in 1..Len(s)}

\* JSON.stringify / JSON.parse.  Every value the hack serialises is built
\* from strings, finite integers, arrays and plain objects, on which the
\* round trip is exact; the text is kept as the document it denotes.
JSONstringify(v) == [json |-> v]
JSONparse(text) == text.json

\* localStorage.getItem / setItem / removeItem
null == [null |-> TRUE]
getItem(store, k) == IF k \in DOMAIN store THEN store[k] ELSE null
setItem(store, k, v) == Put(store, k, v)
removeItem(store, k) == [p \in (DOMAIN store) \ {k} |-> store[p]]

----------------------------------------------------------------------------
(* The host engine: game data and the fields of `bitsy` the hack touches *)

NoNodes == {}

\* two rooms to walk in, nothing else
GamePosition ==
    [name |-> "position", rooms |-> <<"0", "1">>, size |-> MaxCoord,
     start |-> [room |-> "0", x |-> MaxCoord, y |-> MaxCoord],
     items |-> [r \in {"0", "1"} |-> <<>>],
     variables |-> <<>>, varNames |-> {},
     seqNodes |-> NoNodes, shuffleNodes |-> NoNodes]

\* one room holding one item to pick up
GameItems ==
    [name |-> "items", rooms |-> <<"0">>, size |-> 0,
     start |-> [room |-> "0", x |-> 0, y |-> 0],
     items |-> [r \in {"0"} |-> <<"tea">>],
     variables |-> <<>>, varNames |-> {},
     seqNodes |-> NoNodes, shuffleNodes |-> NoNodes]

\* dialog that sets variable a (defined in the game data) and b (created at run time)
GameVariables ==
    [name |-> "variables", rooms |-> <<"0">>, size |-> 0,
     start |-> [room |-> "0", x |-> 0, y |-> 0],
     items |-> [r \in {"0"} |-> <<>>],
     variables |-> << <<"a", 0>> >>, varNames |-> {"a", "b"},
     seqNodes |-> NoNodes, shuffleNodes |-> NoNodes]

\* dialog with two sequence nodes
GameSequence ==
    [name |-> "sequence", rooms |-> <<"0">>, size |-> 0,
     start |-> [room |-> "0", x |-> 0, y |-> 0],
     items |-> [r \in {"0"} |-> <<>>],
     variables |-> <<>>, varNames |-> {},
     seqNodes |-> {"n1", "n2"}, shuffleNodes |-> NoNodes]

\* dialog with two shuffle nodes
GameShuffle ==
    [name |-> "shuffle", rooms |-> <<"0">>, size |-> 0,
     start |-> [room |-> "0", x |-> 0, y |-> 0],
     items |-> [r \in {"0"} |-> <<>>],
     variables |-> <<>>, varNames |-> {},
     seqNodes |-> NoNodes, shuffleNodes |-> {"n1", "n2"}]

Games == {GamePosition, GameItems, GameVariables, GameSequence, GameShuffle}

VarValues == {0, 1}
ShuffleOrders == {<<0, 1>>, <<1, 0>>}

\* bitsy.player()
player(b) == b.player

\* scriptInterpreter.GetVariableNames / GetVariable / SetVariable:
\* the variable store keeps its entries in insertion order
GetVariableNames(b) == [i \in 1..Len(b.variables) |-> b.variables[i][1]]
GetVariable(b, name) ==
    LET i == CHOOSE j \in 1..Len(b.variables) : b.variables[j][1] = name
    IN  b.variables[i][2]
SetVariable(b, name, value) ==
    IF \E j \in 1..Len(b.variables) : b.variables[j][1] = name
    THEN [b EXCEPT !.variables =
            [j \in 1..Len(b.variables) |->
                IF b.variables[j][1] = name THEN <<name, value>> ELSE b.variables[j]]]
    ELSE [b EXCEPT !.variables = Append(b.variables, <<name, value>>)]

\* Object.entries(bitsy.room)
RoomEntries(g, b) == [i \in 1..Len(g.rooms) |-> <<g.rooms[i], b.room[g.rooms[i]]>>]

\* the engine part of startExportedGame / reset_cur_game: the game data is
\* parsed afresh; the saveHack global is not an engine field and is kept
load_game(g, b) ==
    [b EXCEPT
        !.curRoom = g.start.room,
        !.player = [room |-> g.start.room, x |-> g.start.x, y |-> g.start.y,
                    inventory |-> EmptyObject],
        !.room = [r \in Range(g.rooms) |-> [items |-> g.items[r]]],
        !.variables = g.variables,
        !.isEnding = FALSE]

----------------------------------------------------------------------------
(* The hack *)

\* hackOptions as shipped (lines 77-89)
defaultOptions ==
    [autosaveInterval |-> Infinity, loadOnStart |-> TRUE, clearOnEnd |-> FALSE,
     clearOnStart |-> FALSE, position |-> TRUE, variables |-> TRUE, items |-> TRUE,
     dialog |-> TRUE, key |-> "snapshot"]

\* the hackOptions an author may write: every choice of "what to save/load"
\* with the shipped "when to save/load", and every choice of "when to
\* save/load" with the shipped "what to save/load"
Configs ==
    {[defaultOptions EXCEPT !.position = p, !.variables = v, !.items = i, !.dialog = d] :
        p \in BOOLEAN, v \in BOOLEAN, i \in BOOLEAN, d \in BOOLEAN}
    \cup
    {[defaultOptions EXCEPT !.autosaveInterval = a, !.loadOnStart = l,
                            !.clearOnEnd = e, !.clearOnStart = s] :
        a \in FiniteIntervals \cup {Infinity}, l \in BOOLEAN, e \in BOOLEAN, s \in BOOLEAN}

\* function save(): the snapshot object and the write to localStorage
snapshotOf(g, b, opts) ==
    LET position == IF opts.position
                    THEN [room |-> b.curRoom, x |-> player(b).x, y |-> player(b).y]
                    ELSE EmptyObject
        items == IF opts.items
                 THEN [inventory |-> player(b).inventory,
                       items |-> [i \in 1..Len(g.rooms) |->
                                    <<RoomEntries(g, b)[i][1], RoomEntries(g, b)[i][2].items>>]]
                 ELSE EmptyObject
        variables == IF opts.variables
                     THEN [variables |-> [i \in 1..Len(GetVariableNames(b)) |->
                                <<GetVariableNames(b)[i], GetVariable(b, GetVariableNames(b)[i])>>]]
                     ELSE EmptyObject
        dialog == IF opts.dialog
                  THEN [sequenceIndices |-> b.saveHack.sequenceIndices,
                        shuffles |-> b.saveHack.shuffles]
                  ELSE EmptyObject
    IN  Merge(Merge(Merge(position, items), variables), dialog)

\* a save that updates the stored document instead of replacing it
save_merge(store, g, b, opts) ==
    setItem(store, opts.key,
            JSONstringify(IF getItem(store, opts.key) = null
                          THEN snapshotOf(g, b, opts)
                          ELSE Merge(JSONparse(getItem(store, opts.key)), snapshotOf(g, b, opts))))

save(store, g, b, opts) == setItem(store, opts.key, JSONstringify(snapshotOf(g, b, opts)))

\* bitsy.saveHack as the script leaves it
saveHackInit == [sequenceIndices |-> EmptyObject, shuffles |-> EmptyObject]

\* load(), lines 124-132
loadPosition(b, snapshot, opts) ==
    IF opts.position
    THEN LET b1 == IF Has(snapshot, "room") /\ snapshot.room # ""
                   THEN [b EXCEPT !.curRoom = snapshot.room, !.player.room = snapshot.room]
                   ELSE b
         IN  IF Has(snapshot, "x") /\ Has(snapshot, "y") /\ snapshot.x # 0 /\ snapshot.y # 0
             THEN [b1 EXCEPT !.player.x = snapshot.x, !.player.y = snapshot.y]
             ELSE b1
    ELSE b

\* snapshot.items.forEach
RECURSIVE assignRoomItems(_, _)
assignRoomItems(b, entries) ==
    IF entries = <<>> THEN b
    ELSE assignRoomItems([b EXCEPT !.room[Head(entries)[1]].items = Head(entries)[2]],
                         Tail(entries))

\* load(), lines 133-142
loadItems(b, snapshot, opts) ==
    IF opts.items
    THEN LET b1 == IF Has(snapshot, "inventory")
                   THEN [b EXCEPT !.player.inventory = snapshot.inventory]
                   ELSE b
         IN  IF Has(snapshot, "items") THEN assignRoomItems(b1, snapshot.items) ELSE b1
    ELSE b

\* snapshot.variables.forEach
RECURSIVE assignVariables(_, _)
assignVariables(b, list) ==
    IF list = <<>> THEN b
    ELSE assignVariables(SetVariable(b, Head(list)[1], Head(list)[2]), Tail(list))

\* a variables restore that does not look at hackOptions.variables
loadVariables_unguarded(b, snapshot, opts) ==
    IF Has(snapshot, "variables")
    THEN assignVariables(b, snapshot.variables)
    ELSE b

\* load(), lines 143-147
loadVariables(b, snapshot, opts) ==
    IF opts.variables /\ Has(snapshot, "variables")
    THEN assignVariables(b, snapshot.variables)
    ELSE b

\* load(), lines 148-151
loadDialog(b, snapshot, opts) ==
    IF opts.dialog /\ Has(snapshot, "sequenceIndices")
    THEN [b EXCEPT !.saveHack.sequenceIndices = snapshot.sequenceIndices,
                   !.saveHack.shuffles =
                       IF Has(snapshot, "shuffles") THEN snapshot.shuffles ELSE undefined]
    ELSE b

\* a load that, finding nothing stored, starts the dialog progress afresh
load_defaults(store, b, opts) ==
    LET item == getItem(store, opts.key)
    IN  IF item = null THEN [b EXCEPT !.saveHack = saveHackInit]
        ELSE LET snapshot == JSONparse(item)
             IN  loadDialog(loadVariables(loadItems(loadPosition(b, snapshot, opts),
                                                    snapshot, opts), snapshot, opts),
                            snapshot, opts)

\* function load()
load(store, b, opts) ==
    LET item == getItem(store, opts.key)
    IN  IF item = null THEN b
        ELSE LET snapshot == JSONparse(item)
             IN  loadDialog(loadVariables(loadItems(loadPosition(b, snapshot, opts),
                                                    snapshot, opts), snapshot, opts),
                            snapshot, opts)

\* function clear()
clear(store, opts) == removeItem(store, opts.key)

\* a saveSeqIdx that starts a new index map on every call
saveSeqIdxIn_fresh(h, key, index) ==
    [h EXCEPT !.sequenceIndices = Put(EmptyObject, key, index)]

\* bitsy.saveHack methods
saveSeqIdxIn(h, key, index) == [h EXCEPT !.sequenceIndices = Put(h.sequenceIndices, key, index)]
loadSeqIdx(b, key) ==
    IF Has(b.saveHack.sequenceIndices, key) THEN Some(b.saveHack.sequenceIndices[key])
    ELSE undefined
saveShuffleIn(h, key, options) == [h EXCEPT !.shuffles = Put(h.shuffles, key, options)]
loadShuffle(b, key) ==
    IF Has(b.saveHack.shuffles, key) THEN Some(b.saveHack.shuffles[key]) ELSE undefined

\* setInterval hands out an id no active timer has
newTimer(ts) == CHOOSE i \in 1..(Cardinality(ts) + 1) : i \notin ts

\* an autosave hook that sets a new interval without clearing the old one
autosaveTimers_noClear(ts, handle, opts) ==
    IF opts.autosaveInterval < Infinity
    THEN ts \cup {newTimer(ts)}
    ELSE ts

\* after('onready') autosave hook: the timers left active, and the new handle
autosaveTimers(ts, handle, opts) ==
    IF opts.autosaveInterval < Infinity
    THEN ((ts \ Range(handle)) \cup {newTimer(ts \ Range(handle))})
    ELSE ts
autosaveHandle(ts, handle, opts) ==
    IF opts.autosaveInterval < Infinity
    THEN Some(newTimer(ts \ Range(handle)))
    ELSE handle

\* after('onready') autoload hook
autoload(store, b, opts) == IF opts.loadOnStart THEN load(store, b, opts) ELSE b

\* a clear-on-end hook that does not look at isEnding
clearOnEndHook_anyReset(store, b, opts) ==
    IF opts.clearOnEnd THEN clear(store, opts) ELSE store

\* before('reset_cur_game') hook
clearOnEndHook(store, b, opts) ==
    IF opts.clearOnEnd /\ b.isEnding THEN clear(store, opts) ELSE store

\* before('startExportedGame') hook
clearOnStartHook(store, opts) == IF opts.clearOnStart THEN clear(store, opts) ELSE store

----------------------------------------------------------------------------
(* State machine *)

\* the page before the engine has loaded a game: the script has run
scriptLoaded ==
    [curRoom |-> "", player |-> [room |-> "", x |-> 0, y |-> 0, inventory |-> EmptyObject],
     room |-> EmptyObject, variables |-> <<>>, isEnding |-> FALSE, saveHack |-> saveHackInit]

\* a page load up to the first onready: the script runs with the author's
\* options, then startExportedGame with its before hook, then both onready hooks
pageLoad(opts, g, store) ==
    /\ hackOptions' = opts
    /\ curGameData' = g
    /\ localStorage' = clearOnStartHook(store, opts)
    /\ bitsy' = autoload(clearOnStartHook(store, opts), load_game(g, scriptLoaded), opts)
    /\ timers' = autosaveTimers({}, undefined, opts)
    /\ autosaveInterval' = autosaveHandle({}, undefined, opts)
    /\ lastOp' = "startExportedGame"

Init ==
    \E opts \in Configs, g \in Games :
        /\ hackOptions = opts
        /\ curGameData = g
        /\ localStorage = clearOnStartHook(EmptyObject, opts)
        /\ bitsy = autoload(clearOnStartHook(EmptyObject, opts), load_game(g, scriptLoaded), opts)
        /\ timers = autosaveTimers({}, undefined, opts)
        /\ autosaveInterval = autosaveHandle({}, undefined, opts)
        /\ lastOp = "startExportedGame"

\* the author edits at most one of the hackOptions and the page is loaded
\* again; localStorage persists
startExportedGame ==
    \E opts \in Configs :
        /\ Cardinality({f \in DOMAIN opts : opts[f] # hackOptions[f]}) <= 1
        /\ pageLoad(opts, curGameData, localStorage)

\* bitsy.reset_cur_game() with the hack's hooks around it
resetGame(opts) ==
    /\ localStorage' = clearOnEndHook(localStorage, bitsy, opts)
    /\ bitsy' = autoload(clearOnEndHook(localStorage, bitsy, opts),
                         load_game(curGameData, bitsy), opts)
    /\ timers' = autosaveTimers(timers, autosaveInterval, opts)
    /\ autosaveInterval' = autosaveHandle(timers, autosaveInterval, opts)

\* the engine restarts the game (after an ending, or on request)
reset_cur_game ==
    /\ resetGame(hackOptions)
    /\ lastOp' = "reset_cur_game"
    /\ UNCHANGED <<hackOptions, curGameData>>

\* a (load) tag that does not put loadOnStart back
dialogLoad_keepsForced ==
    /\ resetGame([hackOptions EXCEPT !.loadOnStart = TRUE])
    /\ hackOptions' = [hackOptions EXCEPT !.loadOnStart = TRUE]
    /\ lastOp' = "dialogLoad"
    /\ UNCHANGED curGameData

\* (load) dialog tag
dialogLoad ==
    /\ resetGame([hackOptions EXCEPT !.loadOnStart = TRUE])
    /\ hackOptions' = [hackOptions EXCEPT !.loadOnStart = hackOptions.loadOnStart]
    /\ lastOp' = "dialogLoad"
    /\ UNCHANGED curGameData

\* (save) dialog tag
dialogSave ==
    /\ localStorage' = save(localStorage, curGameData, bitsy, hackOptions)
    /\ lastOp' = "save"
    /\ UNCHANGED <<hackOptions, curGameData, bitsy, timers, autosaveInterval>>

\* (clear) dialog tag
dialogClear ==
    /\ localStorage' = clear(localStorage, hackOptions)
    /\ lastOp' = "clear"
    /\ UNCHANGED <<hackOptions, curGameData, bitsy, timers, autosaveInterval>>

\* an interval timer set by the autosave hook fires
autosaveTick ==
    /\ \E t \in timers :
        localStorage' = save(localStorage, curGameData, bitsy, hackOptions)
    /\ lastOp' = "autosave"
    /\ UNCHANGED <<hackOptions, curGameData, bitsy, timers, autosaveInterval>>

\* injected calls: window.saveHack.saveSeqIdx(this, index)
saveSeqIdx ==
    /\ \E node \in curGameData.seqNodes, index \in 0..MaxIndex :
        bitsy' = [bitsy EXCEPT !.saveHack = saveSeqIdxIn(bitsy.saveHack, node, index)]
    /\ lastOp' = "saveSeqIdx"
    /\ UNCHANGED <<hackOptions, curGameData, localStorage, timers, autosaveInterval>>

\* injected call: window.saveHack.saveShuffle(this, optionsShuffled)
saveShuffle ==
    /\ \E node \in curGameData.shuffleNodes, options \in ShuffleOrders :
        bitsy' = [bitsy EXCEPT !.saveHack = saveShuffleIn(bitsy.saveHack, node, options)]
    /\ lastOp' = "saveShuffle"
    /\ UNCHANGED <<hackOptions, curGameData, localStorage, timers, autosaveInterval>>

\* the engine moves the player one tile
movePlayer ==
    /\ ~bitsy.isEnding
    /\ \E x \in 0..curGameData.size, y \in 0..curGameData.size :
        /\ (x - player(bitsy).x) * (x - player(bitsy).x)
             + (y - player(bitsy).y) * (y - player(bitsy).y) = 1
        /\ bitsy' = [bitsy EXCEPT !.player.x = x, !.player.y = y]
    /\ lastOp' = "engine"
    /\ UNCHANGED <<hackOptions, curGameData, localStorage, timers, autosaveInterval>>

\* the engine takes the player through an exit, keeping the coordinates
exitRoom ==
    /\ ~bitsy.isEnding
    /\ \E r \in Range(curGameData.rooms) \ {bitsy.curRoom} :
        bitsy' = [bitsy EXCEPT !.curRoom = r, !.player.room = r]
    /\ lastOp' = "engine"
    /\ UNCHANGED <<hackOptions, curGameData, localStorage, timers, autosaveInterval>>

\* the engine picks up an item lying in the current room
pickUpItem ==
    /\ ~bitsy.isEnding
    /\ \E it \in Range(bitsy.room[bitsy.curRoom].items) :
        bitsy' = [bitsy EXCEPT
            !.room[bitsy.curRoom].items = SeqWithout(@, it),
            !.player.inventory =
                Put(@, it, IF Has(@, it) THEN @[it] + 1 ELSE 1)]
    /\ lastOp' = "engine"
    /\ UNCHANGED <<hackOptions, curGameData, localStorage, timers, autosaveInterval>>

\* dialog assigns a variable
dialogSetVariable ==
    /\ \E name \in curGameData.varNames, value \in VarValues :
        bitsy' = SetVariable(bitsy, name, value)
    /\ lastOp' = "engine"
    /\ UNCHANGED <<hackOptions, curGameData, localStorage, timers, autosaveInterval>>

\* the engine starts an ending dialog
startEnding ==
    /\ ~bitsy.isEnding
    /\ bitsy' = [bitsy EXCEPT !.isEnding = TRUE]
    /\ lastOp' = "engine"
    /\ UNCHANGED <<hackOptions, curGameData, localStorage, timers, autosaveInterval>>

Next ==
    \/ startExportedGame
    \/ reset_cur_game
    \/ dialogLoad
    \/ dialogSave
    \/ dialogClear
    \/ autosaveTick
    \/ saveSeqIdx
    \/ saveShuffle
    \/ movePlayer
    \/ exitRoom
    \/ pickUpItem
    \/ dialogSetVariable
    \/ startEnding

Spec == Init /\ [][Next]_vars

----------------------------------------------------------------------------
(* Vocabulary of the properties *)

PositionFields == {"room", "x", "y"}
ItemFields == {"inventory", "items"}
VariableFields == {"variables"}
DialogFields == {"sequenceIndices", "shuffles"}
AllFields == PositionFields \cup ItemFields \cup VariableFields \cup DialogFields

AllNodes == UNION {g.seqNodes \cup g.shuffleNodes : g \in Games}

LoadOps == {"startExportedGame", "reset_cur_game", "dialogLoad"}
SaveOps == {"save", "autosave"}

\* the slot under hackOptions.key
HasSnapshot(store, opts) == getItem(store, opts.key) # null
SnapshotIn(store, opts) == JSONparse(getItem(store, opts.key))

\* the live fields of each group
PositionOf(b) == <<b.curRoom, b.player.room, b.player.x, b.player.y>>
ItemsOf(b) == <<b.player.inventory, b.room>>
VariablesOf(b) == b.variables
DialogOf(b) == <<b.saveHack.sequenceIndices, b.saveHack.shuffles>>

\* the live fields of a group equal the ones recorded in snapshot s
PositionMatches(b, s) ==
    /\ b.curRoom = s.room /\ b.player.room = s.room
    /\ b.player.x = s.x /\ b.player.y = s.y
ItemsMatch(b, s) ==
    /\ b.player.inventory = s.inventory
    /\ DOMAIN b.room = {s.items[i][1] : i \in 1..Len(s.items)}
    /\ \A i \in 1..Len(s.items) : b.room[s.items[i][1]].items = s.items[i][2]
VariablesMatch(b, s) ==
    /\ {b.variables[i][1] : i \in 1..Len(b.variables)}
         = {s.variables[i][1] : i \in 1..Len(s.variables)}
    /\ \A i \in 1..Len(s.variables) : GetVariable(b, s.variables[i][1]) = s.variables[i][2]
DialogMatches(b, s) ==
    /\ b.saveHack.sequenceIndices = s.sequenceIndices
    /\ b.saveHack.shuffles = s.shuffles

\* document s is exactly what a save of game state b under options opts records
Captures(s, b, opts) ==
    /\ DOMAIN s \subseteq AllFields
    /\ IF opts.position THEN PositionFields \subseteq DOMAIN s /\ PositionMatches(b, s)
                        ELSE PositionFields \cap DOMAIN s = {}
    /\ IF opts.items THEN ItemFields \subseteq DOMAIN s /\ ItemsMatch(b, s)
                     ELSE ItemFields \cap DOMAIN s = {}
    /\ IF opts.variables THEN VariableFields \subseteq DOMAIN s /\ VariablesMatch(b, s)
                         ELSE VariableFields \cap DOMAIN s = {}
    /\ IF opts.dialog THEN DialogFields \subseteq DOMAIN s /\ DialogMatches(b, s)
                      ELSE DialogFields \cap DOMAIN s = {}

\* the last handler ended with a call of load()
LoadRan == lastOp = "dialogLoad" \/ (lastOp \in LoadOps /\ hackOptions.loadOnStart)

AllFlagsOn ==
    hackOptions.position /\ hackOptions.items /\ hackOptions.variables /\ hackOptions.dialog

----------------------------------------------------------------------------
(* C1 *)

\* C1: with all four feature flags on, a load() that follows a game reset and
\* finds a snapshot saved with all flags on leaves room, player x and y,
\* inventory, room items, variables, sequence indices and shuffles equal to
\* the values recorded by that save, for every saved player coordinate.
C1_SaveResetLoadRestores ==
    (/\ LoadRan
     /\ AllFlagsOn
     /\ HasSnapshot(localStorage, hackOptions)
     /\ DOMAIN SnapshotIn(localStorage, hackOptions) = AllFields)
    => LET s == SnapshotIn(localStorage, hackOptions)
       IN  /\ PositionMatches(bitsy, s)
           /\ ItemsMatch(bitsy, s)
           /\ VariablesMatch(bitsy, s)
           /\ DialogMatches(bitsy, s)

----------------------------------------------------------------------------
(* C2 *)

\* C2: localStorage holds at most one entry, under hackOptions.key, and right
\* after a save (the (save) tag or an autosave tick) that entry is exactly the
\* capture of the current game state under the current flags: every field of
\* an enabled group with its live value, and no field of a disabled group,
\* whatever the slot held before.
C2_SingleSlotFullOverwrite ==
    /\ DOMAIN localStorage \subseteq {hackOptions.key}
    /\ Cardinality(DOMAIN localStorage) <= 1
    /\ lastOp \in SaveOps =>
        /\ HasSnapshot(localStorage, hackOptions)
        /\ Captures(SnapshotIn(localStorage, hackOptions), bitsy, hackOptions)

\* a save with the position flag off has replaced whatever was stored, in a
\* game whose player has walked away from the start tile
C2_Witness ==
    /\ lastOp \in SaveOps
    /\ ~hackOptions.position /\ hackOptions.items
    /\ PositionOf(bitsy) # PositionOf(load_game(curGameData, bitsy))
    /\ DOMAIN SnapshotIn(localStorage, hackOptions) = AllFields \ PositionFields

----------------------------------------------------------------------------
(* C4 *)

\* C4: the stored snapshot changes only by a full overwrite from a save (the
\* (save) tag or an autosave tick) or by removal through clear(): the (clear)
\* tag, the clearOnStart hook at page load, or the clearOnEnd hook of a reset
\* (ordinary or inside the (load) tag) taken while isEnding is set.  Every
\* other step, the restore of a load included, leaves it as it was.
C4_SnapshotLifecycle ==
    [][localStorage' # localStorage =>
        \/ /\ lastOp' \in SaveOps
           /\ HasSnapshot(localStorage', hackOptions)
           /\ Captures(SnapshotIn(localStorage', hackOptions), bitsy, hackOptions)
        \/ /\ lastOp' = "clear"
           /\ ~HasSnapshot(localStorage', hackOptions)
        \/ /\ lastOp' = "startExportedGame"
           /\ hackOptions'.clearOnStart
           /\ ~HasSnapshot(localStorage', hackOptions')
        \/ /\ lastOp' \in {"reset_cur_game", "dialogLoad"}
           /\ hackOptions.clearOnEnd /\ bitsy.isEnding
           /\ ~HasSnapshot(localStorage', hackOptions)]_vars

\* a reset with clearOnEnd set, taken outside an ending, has kept the snapshot
\* and restored from it
C4_Witness ==
    /\ lastOp = "reset_cur_game"
    /\ hackOptions.clearOnEnd /\ hackOptions.loadOnStart
    /\ HasSnapshot(localStorage, hackOptions)
    /\ PositionOf(bitsy) # PositionOf(load_game(curGameData, bitsy))

----------------------------------------------------------------------------
(* C3, C5, C6: what a handler that ends with load() started from *)

\* the storage load() reads in the step being taken: the slot after the
\* before hook of the handler
StoreAtLoad ==
    IF lastOp' = "startExportedGame"
    THEN clearOnStartHook(localStorage, hackOptions')
    ELSE clearOnEndHook(localStorage, bitsy, hackOptions)

\* the engine state load() starts from in the step being taken
EngineAtLoad ==
    IF lastOp' = "startExportedGame"
    THEN load_game(curGameData, scriptLoaded)
    ELSE load_game(curGameData, bitsy)

\* the step being taken ends with a call of load()
LoadStep == lastOp' = "dialogLoad" \/ (lastOp' \in LoadOps /\ hackOptions'.loadOnStart)

\* C3: a load() that finds no snapshot under hackOptions.key changes nothing:
\* room, player, inventory, room items, variables, sequence indices and
\* shuffles stay as the engine set them up, and the slot stays empty.
C3_LoadWithoutSnapshotIsNoOp ==
    [][(LoadStep /\ ~HasSnapshot(StoreAtLoad, hackOptions')) =>
        /\ bitsy' = EngineAtLoad
        /\ localStorage' = StoreAtLoad]_vars

\* a (load) tag has run with nothing stored, in a game that had recorded
\* dialog progress
C3_Witness ==
    /\ lastOp = "dialogLoad"
    /\ ~HasSnapshot(localStorage, hackOptions)
    /\ hackOptions.dialog
    /\ bitsy.saveHack.sequenceIndices # EmptyObject

\* C5: whenever a snapshot is stored when the (load) tag runs, the game state
\* after the tag equals the fields recorded in that snapshot (for each group
\* whose flag is on), for every loadOnStart, clearOnEnd and isEnding.
C5_LoadTagLoadsSnapshot ==
    [][(lastOp' = "dialogLoad" /\ HasSnapshot(localStorage, hackOptions)) =>
        LET s == SnapshotIn(localStorage, hackOptions)
        IN  /\ (hackOptions.position /\ PositionFields \subseteq DOMAIN s)
                    => PositionMatches(bitsy', s)
            /\ (hackOptions.items /\ ItemFields \subseteq DOMAIN s)
                    => ItemsMatch(bitsy', s)
            /\ (hackOptions.variables /\ VariableFields \subseteq DOMAIN s)
                    => VariablesMatch(bitsy', s)
            /\ (hackOptions.dialog /\ DialogFields \subseteq DOMAIN s)
                    => DialogMatches(bitsy', s)]_vars

\* C6: for each of position, items, variables and dialog: a save taken with
\* the flag off records none of the group's fields; a load() taken with the
\* flag off leaves the group's live fields as they were, whatever the
\* snapshot holds; and a load() taken with the flag on from a snapshot that
\* has none of the group's fields leaves them as they were too.
C6_FlagsGuardBothDirections ==
    [][/\ lastOp' \in SaveOps =>
            LET s == SnapshotIn(localStorage', hackOptions)
            IN  /\ ~hackOptions.position => PositionFields \cap DOMAIN s = {}
                /\ ~hackOptions.items => ItemFields \cap DOMAIN s = {}
                /\ ~hackOptions.variables => VariableFields \cap DOMAIN s = {}
                /\ ~hackOptions.dialog => DialogFields \cap DOMAIN s = {}
       /\ (LoadStep /\ HasSnapshot(StoreAtLoad, hackOptions')) =>
            LET s == SnapshotIn(StoreAtLoad, hackOptions')
            IN  /\ (~hackOptions'.position \/ PositionFields \cap DOMAIN s = {})
                        => PositionOf(bitsy') = PositionOf(EngineAtLoad)
                /\ (~hackOptions'.items \/ ItemFields \cap DOMAIN s = {})
                        => ItemsOf(bitsy') = ItemsOf(EngineAtLoad)
                /\ (~hackOptions'.variables \/ VariableFields \cap DOMAIN s = {})
                        => VariablesOf(bitsy') = VariablesOf(EngineAtLoad)
                /\ (~hackOptions'.dialog \/ DialogFields \cap DOMAIN s = {})
                        => DialogOf(bitsy') = DialogOf(EngineAtLoad)]_vars

\* a load has run with the variables flag off from a snapshot that records
\* a variable value the engine does not start with
C6_Witness ==
    /\ LoadRan
    /\ ~hackOptions.variables
    /\ HasSnapshot(localStorage, hackOptions)
    /\ "variables" \in DOMAIN SnapshotIn(localStorage, hackOptions)
    /\ SnapshotIn(localStorage, hackOptions).variables # curGameData.variables
    /\ bitsy.variables = curGameData.variables

----------------------------------------------------------------------------
(* C7 *)

\* C7: with autosaveInterval Infinity no interval timer exists and no
\* autosave has run; with a finite interval exactly one timer is active after
\* any number of onready events, and it is the one the handle names.  (A
\* handler runs to completion, so a tick sees the state a handler left.)
C7_OneAutosaveTimer ==
    IF hackOptions.autosaveInterval < Infinity
    THEN /\ Cardinality(timers) = 1
         /\ autosaveInterval # undefined
         /\ timers = Range(autosaveInterval)
    ELSE /\ timers = {}
         /\ autosaveInterval = undefined
         /\ lastOp # "autosave"

\* an autosave tick has saved recorded dialog progress, with one timer active
C7_Witness ==
    /\ hackOptions.autosaveInterval < Infinity
    /\ lastOp = "autosave"
    /\ bitsy.saveHack.sequenceIndices # EmptyObject
    /\ Cardinality(timers) = 1
    /\ HasSnapshot(localStorage, hackOptions)

----------------------------------------------------------------------------
(* C8 *)

\* C8: the (load) tag leaves hackOptions as it found it, loadOnStart
\* included, although its reset loads as if loadOnStart were true; and an
\* ordinary reset taken with loadOnStart false does not load.
C8_LoadTagKeepsLoadOnStart ==
    [][/\ lastOp' = "dialogLoad" =>
            /\ hackOptions' = hackOptions
            /\ bitsy' = load(StoreAtLoad, EngineAtLoad, hackOptions)
       /\ (lastOp' = "reset_cur_game" /\ ~hackOptions.loadOnStart) =>
            /\ hackOptions' = hackOptions
            /\ bitsy' = EngineAtLoad]_vars

\* with loadOnStart false, a (load) tag has restored a saved position and left
\* loadOnStart false
C8_Witness ==
    /\ lastOp = "dialogLoad"
    /\ ~hackOptions.loadOnStart
    /\ HasSnapshot(localStorage, hackOptions)
    /\ PositionOf(bitsy) # PositionOf(load_game(curGameData, bitsy))

----------------------------------------------------------------------------
(* C9 *)

\* C9: saveSeqIdx(node, index) makes loadSeqIdx(node) return index and
\* changes no other answer of loadSeqIdx or loadShuffle; saveShuffle likewise
\* for loadShuffle; a page load starts with both maps empty (every answer
\* undefined); a load() with the dialog flag on from a snapshot that has
\* sequenceIndices makes both maps the snapshot's; and no other step changes
\* either map.
C9_DialogProgressStore ==
    [][/\ lastOp' = "saveSeqIdx" =>
            \E node \in curGameData.seqNodes, index \in 0..MaxIndex :
                /\ loadSeqIdx(bitsy', node) = Some(index)
                /\ \A m \in AllNodes \ {node} : loadSeqIdx(bitsy', m) = loadSeqIdx(bitsy, m)
                /\ \A m \in AllNodes : loadShuffle(bitsy', m) = loadShuffle(bitsy, m)
                /\ DOMAIN bitsy'.saveHack.sequenceIndices \subseteq AllNodes
       /\ lastOp' = "saveShuffle" =>
            \E node \in curGameData.shuffleNodes, options \in ShuffleOrders :
                /\ loadShuffle(bitsy', node) = Some(options)
                /\ \A m \in AllNodes \ {node} : loadShuffle(bitsy', m) = loadShuffle(bitsy, m)
                /\ \A m \in AllNodes : loadSeqIdx(bitsy', m) = loadSeqIdx(bitsy, m)
                /\ DOMAIN bitsy'.saveHack.shuffles \subseteq AllNodes
       /\ (LoadStep /\ hackOptions'.dialog /\ HasSnapshot(StoreAtLoad, hackOptions')
             /\ "sequenceIndices" \in DOMAIN SnapshotIn(StoreAtLoad, hackOptions')) =>
            DialogMatches(bitsy', SnapshotIn(StoreAtLoad, hackOptions'))
       /\ (lastOp' = "startExportedGame"
             /\ ~(LoadStep /\ hackOptions'.dialog /\ HasSnapshot(StoreAtLoad, hackOptions')
                    /\ "sequenceIndices" \in DOMAIN SnapshotIn(StoreAtLoad, hackOptions'))) =>
            \A m \in AllNodes : /\ loadSeqIdx(bitsy', m) = undefined
                                /\ loadShuffle(bitsy', m) = undefined
       /\ (lastOp' \notin {"saveSeqIdx", "saveShuffle"} \cup LoadOps) =>
            DialogOf(bitsy') = DialogOf(bitsy)]_vars

\* a (load) tag has made the index map the stored one: n1 at index 1 and
\* n2 without an entry
C9_Witness ==
    /\ LoadRan
    /\ hackOptions.dialog
    /\ HasSnapshot(localStorage, hackOptions)
    /\ "sequenceIndices" \in DOMAIN SnapshotIn(localStorage, hackOptions)
    /\ loadSeqIdx(bitsy, "n1") = Some(1)
    /\ loadSeqIdx(bitsy, "n2") = undefined
    /\ lastOp = "dialogLoad"

====
